---- MODULE Spec2Model ----
(***************************************************************************)
(* Page-table visitor of src/structures/paging/visitor.rs.                  *)
(*                                                                         *)
(* The two traversal engines (PageTableVisit, PageTableVisitMut) with all   *)
(* hooks at their defaults, run by a caller over a hierarchy of page        *)
(* tables.  The recursion of the hooks is an explicit call stack of         *)
(* table-hook activations; every hook invocation and resolver call is       *)
(* appended to the history variable trace.                                  *)
(***************************************************************************)
EXTENDS Integers, Sequences, FiniteSets, TLC

\* ---------------------------------------------------------------- bounds
TableSize == 2          \* entries per table (512 in the hardware format)
NFrames == 4            \* physical frames holding tables
MaxStack == 6           \* call-stack depth at which the recursion overflows
DirectMapPage == 8      \* first page of the direct-map window of the resolver

\* ------------------------------------------------------------- constants
PageSize == 4096        \* Size4KiB

Frames == 0 .. (NFrames - 1)
Slots == 0 .. (TableSize - 1)
Engines == {"ro", "mut"}
Hooks == {"pml4", "pdpt", "pd", "pt"}

\* ------------------------------------------------------ addresses, entries
\* PhysFrame::start_address / Page::start_address
StartAddress(n) == n * PageSize

\* the table a pointer refers to: `&*ptr` / `&mut *ptr`
TableAddr(f) == StartAddress(f + DirectMapPage)

TableAddrs == {TableAddr(f) : f \in Frames}

FrameOfTable(a) == (a \div PageSize) - DirectMapPage

\* PageTableVisit::get_page : PhysFrame -> Page<Size4KiB>
get_page(paddr) == paddr + DirectMapPage

\* PageTableVisitMut::get_vaddr : PhysAddr -> VirtAddr
get_vaddr(paddr) == paddr + StartAddress(DirectMapPage)

Absent == [present |-> FALSE, huge |-> FALSE, addr |-> 0]
Huge(f) == [present |-> TRUE, huge |-> TRUE, addr |-> f]
Ptr(f) == [present |-> TRUE, huge |-> FALSE, addr |-> f]

\* PageTableEntry::frame : Result<PhysFrame, FrameError>
frame(entry) ==
    IF ~entry.present THEN [tag |-> "FrameNotPresent", frame |-> 0]
    ELSE IF entry.huge THEN [tag |-> "HugeFrame", frame |-> 0]
    ELSE [tag |-> "Ok", frame |-> entry.addr]

\* ------------------------------------------------------------ hierarchies
\* A table is described by the kind of its distinguished entries and the
\* slots they occupy: the first slot, the last slot, or both; all other slots
\* are absent.
Kinds == {"huge", "next", "self"}
Places == {"first", "last", "both"}
Shapes == {[kind |-> "absent", place |-> "first"]}
            \cup [kind : Kinds, place : Places]

ShapeEntry(f, kind) ==
    CASE kind = "huge" -> Huge(f)
      [] kind = "next" -> Ptr((f + 1) % NFrames)
      [] kind = "self" -> Ptr(f)
      [] OTHER -> Absent

RowOf(f, sh) ==
    [i \in Slots |->
        IF \/ i = 0 /\ sh.place \in {"first", "both"}
           \/ i = TableSize - 1 /\ sh.place \in {"last", "both"}
        THEN ShapeEntry(f, sh.kind) ELSE Absent]

\* tables that no chain of pointers from frame 0 reaches are left empty
Canonical(s) ==
    \A f \in Frames :
        (\E g \in 0 .. (f - 1) : s[g].kind # "next") => s[f].kind = "absent"

Hierarchies ==
    {[a \in TableAddrs |-> RowOf(FrameOfTable(a), s[FrameOfTable(a)])] :
        s \in {t \in [Frames -> Shapes] : Canonical(t)}}

Root == TableAddr(0)

\* ------------------------------------------------------------------ state
VARIABLES
    mem,        \* the page tables: table address -> slot -> entry
    engine,     \* engine of the current walk
    start,      \* table-hook the caller invoked
    stack,      \* activations of table-hooks, innermost last
    status,     \* "idle", "running", "returned", "panicked", "overflow"
    payload,    \* panic payload handed to the caller on unwinding
    trace,      \* hook invocations and resolver calls of the current walk
    prev        \* outcome of the walk the caller ran before this one

vars == <<mem, engine, start, stack, status, payload, trace, prev>>

NoWalk == [engine |-> "none", start |-> "none", status |-> "idle",
           payload |-> "", trace |-> <<>>]

Ev(ev, hook, table, idx, f) ==
    [ev |-> ev, hook |-> hook, table |-> table, idx |-> idx, frame |-> f,
     depth |-> 0, visited |-> <<>>]

TableEv(hook, table, depth) ==
    [Ev("table", hook, table, -1, -1) EXCEPT !.depth = depth]
EntryEv(hook, table, idx, depth) ==
    [Ev("entry", hook, table, idx, -1) EXCEPT !.depth = depth]
ResolveEv(f, table) == Ev("resolve", "none", table, -1, f)
RetEv(hook, table, depth, visited) ==
    [Ev("ret", hook, table, -1, -1) EXCEPT !.depth = depth,
                                           !.visited = visited]

Activation(hook, table) ==
    [hook |-> hook, table |-> table, it |-> 0, cur |-> -1,
     pc |-> "iter", ehook |-> "none", visited |-> <<>>]

Init ==
    /\ mem \in Hierarchies
    /\ engine = "none"
    /\ start = "none"
    /\ stack = <<>>
    /\ status = "idle"
    /\ payload = ""
    /\ trace = <<>>
    /\ prev = NoWalk

Top == stack[Len(stack)]
CurEntry == mem[Top.table][Top.cur]

InTable(e, h) ==
    /\ status = "running" /\ engine = e
    /\ Len(stack) > 0 /\ Top.pc = "iter" /\ Top.hook = h

InEntry(e, h) ==
    /\ status = "running" /\ engine = e
    /\ Len(stack) > 0 /\ Top.pc = "entry" /\ Top.ehook = h

\* ------------------------------------------------------------ the caller
\* The caller walks the same hierarchy with each engine, entering at
\* visitor.visit_pt(root) and at visitor.visit_pml4(root).  A walk leaves mem
\* and the visitor as they were, so the order of the walks is immaterial and
\* the caller runs them in this one; it keeps the outcome of the walk before.
Walks == << [engine |-> "mut", hook |-> "pt"],
            [engine |-> "ro", hook |-> "pt"],
            [engine |-> "ro", hook |-> "pml4"],
            [engine |-> "mut", hook |-> "pml4"] >>

WalksDone ==
    IF status = "idle" THEN 0
    ELSE CHOOSE k \in 1 .. Len(Walks) :
            Walks[k] = [engine |-> engine, hook |-> start]

Call ==
    /\ status # "running"
    /\ WalksDone < Len(Walks)
    /\ prev' = IF status = "idle" THEN prev
               ELSE [engine |-> engine, start |-> start, status |-> status,
                     payload |-> payload, trace |-> trace]
    /\ engine' = Walks[WalksDone + 1].engine
    /\ start' = Walks[WalksDone + 1].hook
    /\ stack' = <<Activation(Walks[WalksDone + 1].hook, Root)>>
    /\ status' = "running"
    /\ payload' = ""
    /\ trace' = <<TableEv(Walks[WalksDone + 1].hook, Root, 1)>>
    /\ UNCHANGED mem

\* ------------------------------------------------------- shared mechanics
\* the order in which PageTable::iter / iter_mut yield the slots of a table
IterOrder == [k \in 1 .. TableSize |-> k - 1]

\* for_each over an iterator yielding the slots in the given order: hand the
\* next entry to the entry-hook, or return once the iterator is exhausted
ForEachIn(ehook, order) ==
    IF Top.it < Len(order)
    THEN /\ stack' = [stack EXCEPT ![Len(stack)] =
                        [@ EXCEPT !.cur = order[Top.it + 1],
                                  !.it = Top.it + 1,
                                  !.pc = "entry", !.ehook = ehook,
                                  !.visited = Append(@, order[Top.it + 1])]]
         /\ trace' = Append(trace,
                EntryEv(ehook, Top.table, order[Top.it + 1], Len(stack)))
         /\ UNCHANGED <<status, payload>>
    ELSE /\ stack' = SubSeq(stack, 1, Len(stack) - 1)
         /\ trace' = Append(trace,
                        RetEv(Top.hook, Top.table, Len(stack), Top.visited))
         /\ status' = IF Len(stack) = 1 THEN "returned" ELSE status
         /\ UNCHANGED payload

\* table.iter().for_each(|entry| visitor.<ehook>(entry))
ForEach(ehook) == ForEachIn(ehook, IterOrder)

\* the entry-hook returns without descending
Done ==
    /\ stack' = [stack EXCEPT ![Len(stack)] = [@ EXCEPT !.pc = "iter"]]
    /\ UNCHANGED <<status, payload, trace>>

\* the resolver was called on f and returned table; visitor.<hook>(table)
Descend(hook, f, table) ==
    IF Len(stack) < MaxStack
    THEN /\ stack' = Append([stack EXCEPT ![Len(stack)] =
                                [@ EXCEPT !.pc = "iter"]],
                            Activation(hook, table))
         /\ trace' = trace \o <<ResolveEv(f, table),
                                TableEv(hook, table, Len(stack) + 1)>>
         /\ UNCHANGED <<status, payload>>
    ELSE /\ status' = "overflow"
         /\ trace' = Append(trace, ResolveEv(f, table))
         /\ UNCHANGED <<stack, payload>>

\* unreachable!(): panics with the macro's fixed message
unreachable ==
    /\ status' = "panicked"
    /\ payload' = "internal error: entered unreachable code"
    /\ stack' = <<>>
    /\ UNCHANGED trace

\* ------------------------------------------------------- read-only engine
\* variant: the PML4 table is scanned from the last slot down
visit_pml4_descending ==
    /\ InTable("ro", "pml4")
    /\ ForEachIn("pml4", [k \in 1 .. TableSize |-> TableSize - k])
    /\ UNCHANGED <<mem, engine, start, prev>>

visit_pml4 ==
    /\ InTable("ro", "pml4")
    /\ ForEach("pml4")
    /\ UNCHANGED <<mem, engine, start, prev>>

visit_pml4_entry ==
    /\ InEntry("ro", "pml4")
    /\ LET r == frame(CurEntry) IN
       CASE r.tag = "Ok" ->
              LET pdpt_page == get_page(r.frame)
                  pdpt == StartAddress(pdpt_page)
              IN  Descend("pdpt", r.frame, pdpt)
         [] r.tag = "HugeFrame" -> unreachable
         [] r.tag = "FrameNotPresent" -> Done
    /\ UNCHANGED <<mem, engine, start, prev>>

\* variant: the scan of a PDPT table stops one slot short
visit_pdpt_short ==
    /\ InTable("ro", "pdpt")
    /\ ForEachIn("pdpt", [k \in 1 .. (TableSize - 1) |-> k - 1])
    /\ UNCHANGED <<mem, engine, start, prev>>

visit_pdpt ==
    /\ InTable("ro", "pdpt")
    /\ ForEach("pdpt")
    /\ UNCHANGED <<mem, engine, start, prev>>

\* variant: a 1 GiB entry is resolved and walked as if it were a table
visit_pdpt_entry_huge_descends ==
    /\ InEntry("ro", "pdpt")
    /\ LET r == frame(CurEntry) IN
       CASE r.tag = "Ok" ->
              LET pd_page == get_page(r.frame)
                  pd == StartAddress(pd_page)
              IN  Descend("pd", r.frame, pd)
         [] r.tag = "HugeFrame" ->
              LET pd_page == get_page(CurEntry.addr)
                  pd == StartAddress(pd_page)
              IN  Descend("pd", CurEntry.addr, pd)
         [] r.tag = "FrameNotPresent" -> Done
    /\ UNCHANGED <<mem, engine, start, prev>>

visit_pdpt_entry ==
    /\ InEntry("ro", "pdpt")
    /\ LET r == frame(CurEntry) IN
       CASE r.tag = "Ok" ->
              LET pd_page == get_page(r.frame)
                  pd == StartAddress(pd_page)
              IN  Descend("pd", r.frame, pd)
         [] r.tag = "HugeFrame" -> Done
         [] r.tag = "FrameNotPresent" -> Done
    /\ UNCHANGED <<mem, engine, start, prev>>

\* variant: the scan of a PD table stops one slot short
visit_pd_short ==
    /\ InTable("ro", "pd")
    /\ ForEachIn("pd", [k \in 1 .. (TableSize - 1) |-> k - 1])
    /\ UNCHANGED <<mem, engine, start, prev>>

visit_pd ==
    /\ InTable("ro", "pd")
    /\ ForEach("pd")
    /\ UNCHANGED <<mem, engine, start, prev>>

visit_pd_entry ==
    /\ InEntry("ro", "pd")
    /\ LET r == frame(CurEntry) IN
       CASE r.tag = "Ok" ->
              LET pt_page == get_page(r.frame)
                  pt == StartAddress(pt_page)
              IN  Descend("pd", r.frame, pt)
         [] r.tag = "HugeFrame" -> Done
         [] r.tag = "FrameNotPresent" -> Done
    /\ UNCHANGED <<mem, engine, start, prev>>

visit_pt ==
    /\ InTable("ro", "pt")
    /\ ForEach("pt")
    /\ UNCHANGED <<mem, engine, start, prev>>

visit_pt_entry ==
    /\ InEntry("ro", "pt")
    /\ LET r == frame(CurEntry) IN
       CASE r.tag = "Ok" -> Done
         [] r.tag = "HugeFrame" -> unreachable
         [] r.tag = "FrameNotPresent" -> Done
    /\ UNCHANGED <<mem, engine, start, prev>>

\* --------------------------------------------------------- mutable engine
visit_mut_pml4 ==
    /\ InTable("mut", "pml4")
    /\ ForEach("pml4")
    /\ UNCHANGED <<mem, engine, start, prev>>

\* variant: the entry-hook returns at once and the walk of the child table is
\* put off until the scan of the PML4 has finished
visit_mut_pml4_entry_deferred ==
    /\ InEntry("mut", "pml4")
    /\ LET r == frame(CurEntry) IN
       CASE r.tag = "Ok" ->
              LET pdpt_vaddr == get_vaddr(StartAddress(r.frame))
              IN  /\ stack' = SubSeq(stack, 1, Len(stack) - 1)
                                \o <<Activation("pdpt", pdpt_vaddr),
                                     [Top EXCEPT !.pc = "iter"]>>
                  /\ trace' = trace \o <<ResolveEv(r.frame, pdpt_vaddr),
                                 TableEv("pdpt", pdpt_vaddr, Len(stack) + 1)>>
                  /\ UNCHANGED <<status, payload>>
         [] r.tag = "HugeFrame" -> unreachable
         [] r.tag = "FrameNotPresent" -> Done
    /\ UNCHANGED <<mem, engine, start, prev>>

visit_mut_pml4_entry ==
    /\ InEntry("mut", "pml4")
    /\ LET r == frame(CurEntry) IN
       CASE r.tag = "Ok" ->
              LET pdpt_vaddr == get_vaddr(StartAddress(r.frame))
              IN  Descend("pdpt", r.frame, pdpt_vaddr)
         [] r.tag = "HugeFrame" -> unreachable
         [] r.tag = "FrameNotPresent" -> Done
    /\ UNCHANGED <<mem, engine, start, prev>>

visit_mut_pdpt ==
    /\ InTable("mut", "pdpt")
    /\ ForEach("pdpt")
    /\ UNCHANGED <<mem, engine, start, prev>>

\* variant: the mutable engine does not descend below the PDPT
visit_mut_pdpt_entry_no_descent ==
    /\ InEntry("mut", "pdpt")
    /\ LET r == frame(CurEntry) IN
       CASE r.tag = "Ok" -> Done
         [] r.tag = "HugeFrame" -> Done
         [] r.tag = "FrameNotPresent" -> Done
    /\ UNCHANGED <<mem, engine, start, prev>>

visit_mut_pdpt_entry ==
    /\ InEntry("mut", "pdpt")
    /\ LET r == frame(CurEntry) IN
       CASE r.tag = "Ok" ->
              LET pd_vaddr == get_vaddr(StartAddress(r.frame))
              IN  Descend("pd", r.frame, pd_vaddr)
         [] r.tag = "HugeFrame" -> Done
         [] r.tag = "FrameNotPresent" -> Done
    /\ UNCHANGED <<mem, engine, start, prev>>

\* variant: the mutable scan of a PD table stops one slot short
visit_mut_pd_short ==
    /\ InTable("mut", "pd")
    /\ ForEachIn("pd", [k \in 1 .. (TableSize - 1) |-> k - 1])
    /\ UNCHANGED <<mem, engine, start, prev>>

visit_mut_pd ==
    /\ InTable("mut", "pd")
    /\ ForEach("pd")
    /\ UNCHANGED <<mem, engine, start, prev>>

\* variant: the mutable engine clears every 2 MiB entry it meets
visit_mut_pd_entry_clears ==
    /\ InEntry("mut", "pd")
    /\ LET r == frame(CurEntry) IN
       CASE r.tag = "Ok" ->
              LET pt_vaddr == get_vaddr(StartAddress(r.frame))
              IN  Descend("pd", r.frame, pt_vaddr) /\ UNCHANGED mem
         [] r.tag = "HugeFrame" ->
              Done /\ mem' = [mem EXCEPT ![Top.table][Top.cur] = Absent]
         [] r.tag = "FrameNotPresent" -> Done /\ UNCHANGED mem
    /\ UNCHANGED <<engine, start, prev>>

visit_mut_pd_entry ==
    /\ InEntry("mut", "pd")
    /\ LET r == frame(CurEntry) IN
       CASE r.tag = "Ok" ->
              LET pt_vaddr == get_vaddr(StartAddress(r.frame))
              IN  Descend("pd", r.frame, pt_vaddr)
         [] r.tag = "HugeFrame" -> Done
         [] r.tag = "FrameNotPresent" -> Done
    /\ UNCHANGED <<mem, engine, start, prev>>

visit_mut_pt ==
    /\ InTable("mut", "pt")
    /\ ForEach("pt")
    /\ UNCHANGED <<mem, engine, start, prev>>

visit_mut_pt_entry ==
    /\ InEntry("mut", "pt")
    /\ LET r == frame(CurEntry) IN
       CASE r.tag = "Ok" -> Done
         [] r.tag = "HugeFrame" -> unreachable
         [] r.tag = "FrameNotPresent" -> Done
    /\ UNCHANGED <<mem, engine, start, prev>>

\* ---------------------------------------------------------- specification
Next ==
    \/ Call
    \/ visit_pml4 \/ visit_pml4_entry
    \/ visit_pdpt \/ visit_pdpt_entry
    \/ visit_pd \/ visit_pd_entry
    \/ visit_pt \/ visit_pt_entry
    \/ visit_mut_pml4 \/ visit_mut_pml4_entry
    \/ visit_mut_pdpt \/ visit_mut_pdpt_entry
    \/ visit_mut_pd \/ visit_mut_pd_entry
    \/ visit_mut_pt \/ visit_mut_pt_entry

Spec == Init /\ [][Next]_vars

TypeOK ==
    /\ mem \in [TableAddrs -> [Slots -> {Absent} \cup {Huge(f) : f \in Frames}
                                          \cup {Ptr(f) : f \in Frames}]]
    /\ engine \in Engines \cup {"none"}
    /\ status \in {"idle", "running", "returned", "panicked", "overflow"}
    /\ Len(stack) <= MaxStack
\* ------------------------------------------------------ reading the trace
Events == 1 .. Len(trace)

\* trace[i] is the application of entry-hook h to an entry classified tag
EntryAt(i, h, tag) ==
    /\ trace[i].ev = "entry"
    /\ trace[i].hook = h
    /\ frame(mem[trace[i].table][trace[i].idx]).tag = tag

\* the entry-hook invoked at trace[i] has run its match
Acted(i) ==
    \/ i < Len(trace)
    \/ status # "running"
    \/ Top.pc # "entry"

\* the physical frame stored in the entry of trace[i]
FrameAt(i) == mem[trace[i].table][trace[i].idx].addr

\* the table-hook one level below the level of entry-hook h
NextLevel(h) ==
    CASE h = "pml4" -> "pdpt"
      [] h = "pdpt" -> "pd"
      [] h = "pd" -> "pt"
      [] OTHER -> "none"

\* trace[i] lies in a table four levels deep in the hierarchy (a PT)
InPtTable(i) ==
    \/ start = "pml4" /\ trace[i].depth = 4
    \/ start = "pt" /\ trace[i].depth = 1

\* ------------------------------------------------------------------ claims

\* C1 (as claimed): in both engines the default PD entry-hook, applied to a
\* present non-huge entry, calls the resolver on the entry's frame and then
\* invokes the PT table-hook on the resolved table, not the PD table-hook.
C1_PdEntryDescendsIntoPt ==
    \A i \in Events :
        (EntryAt(i, "pd", "Ok") /\ Acted(i)) =>
            /\ i + 1 <= Len(trace)
            /\ trace[i + 1].ev = "resolve"
            /\ trace[i + 1].frame = FrameAt(i)
            /\ (i + 2 <= Len(trace) =>
                    /\ trace[i + 2].ev = "table"
                    /\ trace[i + 2].hook = "pt"
                    /\ trace[i + 2].table = trace[i + 1].table)

\* C2 (as claimed): for a present non-huge entry at PML4, PDPT or PD the
\* entry-hook makes exactly one resolver call, before the next-level
\* table-hook fires, and that hook receives the location the resolver returned.
C2_OneResolveThenNextLevel ==
    \A i \in Events : \A h \in {"pml4", "pdpt", "pd"} :
        (EntryAt(i, h, "Ok") /\ Acted(i)) =>
            /\ i + 1 <= Len(trace)
            /\ trace[i + 1] = ResolveEv(FrameAt(i), trace[i + 1].table)
            /\ (i + 2 <= Len(trace) =>
                    trace[i + 2] = TableEv(NextLevel(h), trace[i + 1].table,
                                           trace[i].depth + 1))

\* C3 (as claimed): a present huge PML4 entry makes the walk hand its caller
\* an error it can recover from (the walk does not panic), with no resolver
\* call and no PDPT table-hook for that entry.
C3_Pml4HugeReportedToCaller ==
    \A i \in Events :
        (EntryAt(i, "pml4", "HugeFrame") /\ Acted(i)) =>
            /\ i = Len(trace)
            /\ status \notin {"running", "panicked"}
            /\ payload # ""

\* C4 (as claimed): a huge entry in a PT-level table reached by the default
\* walk makes the walk fail; it is not accepted as a leaf.
C4_PtHugeFails ==
    \A i \in Events :
        (trace[i].ev = "entry" /\ InPtTable(i)
            /\ frame(mem[trace[i].table][trace[i].idx]).tag = "HugeFrame"
            /\ Acted(i)) =>
            /\ i = Len(trace)
            /\ status = "panicked"

\* the entry-hook whose unreachable!() ended walk w
FailSite(w) == w.trace[Len(w.trace)].hook

\* C5 (as claimed): the failure of a huge PT entry and the failure of a huge
\* PML4 entry never hand the caller the same error value.
C5_FailuresDistinguishable ==
    (/\ prev.status = "panicked" /\ status = "panicked"
     /\ FailSite(prev) # FailSite([trace |-> trace])) =>
        prev.payload # payload

\* C6 (as claimed): once an invalid huge classification (PML4 entry or entry
\* of a PT-level table) has been met, no further entry-hook, table-hook or
\* resolver call occurs and the walk ends reporting that error.
C6_FailFast ==
    \A i \in Events :
        (/\ trace[i].ev = "entry"
         /\ frame(mem[trace[i].table][trace[i].idx]).tag = "HugeFrame"
         /\ (trace[i].hook = "pml4" \/ InPtTable(i))
         /\ Acted(i)) =>
            /\ i = Len(trace)
            /\ status = "panicked"
            /\ payload # ""

\* C7: for a present huge entry at PDPT or PD the entry-hook makes no
\* resolver call, fires no table-hook and raises no error: the scan of the
\* same table simply goes on (next slot, or return).
C7_HugeLeafNoDescent ==
    \A i \in Events : \A h \in {"pdpt", "pd"} :
        (EntryAt(i, h, "HugeFrame") /\ Acted(i)) =>
            /\ (i = Len(trace) => status = "running" /\ payload = "")
            /\ (i < Len(trace) =>
                    /\ trace[i + 1].ev \in {"entry", "ret"}
                    /\ trace[i + 1].table = trace[i].table
                    /\ trace[i + 1].depth = trace[i].depth)

C7_Witness ==
    \E i \in Events : \E h \in {"pdpt", "pd"} :
        /\ EntryAt(i, h, "HugeFrame")
        /\ i < Len(trace)
        /\ trace[i + 1].ev = "entry"

\* the last event before trace[i] that belongs to the same nesting depth
PrevAtDepth(i) ==
    LET js == {j \in 1 .. (i - 1) : trace[j].depth = trace[i].depth}
    IN  CHOOSE j \in js : \A k \in js : k <= j

\* C8: within one table-hook invocation the entry-hook is applied to the
\* slots in ascending order: whenever it is applied to slot 0 the event
\* before it in that invocation is the table-hook's start, and whenever it is
\* applied to slot k > 0 that event is its application to slot k - 1.
C8_AscendingOrder ==
    (Len(trace) > 0 /\ trace[Len(trace)].ev = "entry") =>
        LET e == trace[Len(trace)]
            p == trace[PrevAtDepth(Len(trace))]
        IN  /\ p.table = e.table
            /\ IF e.idx = 0 THEN p.ev = "table"
               ELSE p.ev = "entry" /\ p.idx = e.idx - 1

C8_Witness ==
    /\ status = "returned"
    /\ start = "pml4"
    /\ \E i \in Events : trace[i].ev = "entry" /\ trace[i].hook = "pml4"
                          /\ trace[i].idx = TableSize - 1
    /\ \E i \in Events : trace[i].ev = "resolve"

AllAbsent(table) == \A k \in Slots : ~mem[table][k].present

\* C9: the table-hook of a table whose entries are all absent fires the
\* same-level entry-hook once per slot and nothing else: no resolver call,
\* no table-hook below it, then it returns.
C9_EmptyTable ==
    \A i \in Events :
        (trace[i].ev = "table" /\ AllAbsent(trace[i].table)) =>
            /\ \A k \in 1 .. TableSize :
                 i + k <= Len(trace) =>
                    trace[i + k] = EntryEv(trace[i].hook, trace[i].table,
                                           k - 1, trace[i].depth)
            /\ (i + TableSize + 1 <= Len(trace) =>
                    /\ trace[i + TableSize + 1].ev = "ret"
                    /\ trace[i + TableSize + 1].table = trace[i].table
                    /\ trace[i + TableSize + 1].depth = trace[i].depth)
            /\ (status # "running" => i + TableSize + 1 <= Len(trace))

C9_Witness ==
    /\ status = "returned"
    /\ \E i \in Events :
        /\ trace[i].ev = "table" /\ trace[i].hook = "pd"
        /\ AllAbsent(trace[i].table)
        /\ i + TableSize + 1 <= Len(trace)

IsPrefix(s, t) == Len(s) <= Len(t) /\ SubSeq(t, 1, Len(s)) = s

\* C10: over the same hierarchy and from the same table-hook, the read-only
\* and the mutable engine produce the same sequence of hook invocations and
\* resolver calls, and end the same way.
C10_EnginesAgree ==
    (/\ prev.engine \in Engines /\ engine \in Engines
     /\ prev.engine # engine /\ prev.start = start) =>
        /\ IsPrefix(trace, prev.trace)
        /\ (status # "running" =>
                /\ trace = prev.trace
                /\ status = prev.status
                /\ payload = prev.payload)

C10_Witness ==
    /\ prev.engine = "ro" /\ engine = "mut"
    /\ prev.start = "pml4" /\ start = "pml4"
    /\ status = "returned"
    /\ Len(trace) > 0
    /\ \E i \in Events : trace[i].ev = "table" /\ trace[i].depth = 4


\* the slots of a table that hold a present entry
PresentSlots(table) == {k \in Slots : mem[table][k].present}

\* number of events of one kind fired by one hook in the current walk
Count(ev, hook) ==
    Cardinality({i \in Events : trace[i].ev = ev /\ trace[i].hook = hook})

\* the hierarchy of the end-to-end scenario: one present, non-huge PML4 entry
\* pointing to a PDPT whose only present entry is huge
OneGiBScenario ==
    \E k \in Slots :
        /\ PresentSlots(Root) = {k}
        /\ ~mem[Root][k].huge
        /\ LET pdpt == TableAddr(mem[Root][k].addr) IN
           \E j \in Slots : PresentSlots(pdpt) = {j} /\ mem[pdpt][j].huge

\* C11: on such a hierarchy a default walk from the PML4 does not fail, and
\* once it has returned it has fired the PML4 entry-hook once per slot, the
\* PDPT table-hook once, the PDPT entry-hook once per slot, no PD or PT
\* table-hook, and has made exactly one resolver call.
C11_OneGiBWalk ==
    (OneGiBScenario /\ start = "pml4") =>
        /\ status \in {"running", "returned"}
        /\ (status = "returned" =>
                /\ Count("entry", "pml4") = TableSize
                /\ Count("table", "pdpt") = 1
                /\ Count("entry", "pdpt") = TableSize
                /\ Count("table", "pd") = 0
                /\ Count("table", "pt") = 0
                /\ Count("resolve", "none") = 1)

C11_Witness ==
    /\ OneGiBScenario
    /\ start = "pml4"
    /\ engine = "mut"
    /\ status = "returned"
    /\ \E i \in Events : EntryAt(i, "pdpt", "HugeFrame")

\* the tables the present, non-huge entries of table t point to
Children(t) ==
    {TableAddr(mem[t][k].addr) : k \in {j \in Slots : frame(mem[t][j]).tag = "Ok"}}

\* the PT tables reachable from the root through present, non-huge PML4,
\* PDPT and PD entries
PtTables ==
    UNION {Children(pd) : pd \in UNION {Children(pdpt) : pdpt \in Children(Root)}}

\* C12 (as claimed): in a completed walk from the PML4 the PT entry-hook (the
\* dispatch visitor.visit_pt_entry(entry), which runs the visitor's override
\* when it has one) has been invoked for every slot of every reachable PT
\* table, once per visit of that table.
C12_PtEntryHookReached ==
    (start = "pml4" /\ status = "returned") =>
        \A t \in PtTables : \A k \in Slots :
            /\ \E i \in Events : trace[i] = EntryEv("pt", t, k, 4)
            /\ Cardinality({i \in Events : trace[i] = EntryEv("pt", t, k, 4)})
                 = Cardinality({i \in Events : trace[i].ev = "table"
                                    /\ trace[i].table = t
                                    /\ trace[i].depth = 4})

\* C13 (as claimed): a default walk from the PML4 never takes a frame
\* referenced by an entry of a PT-level table for a child table: no resolver
\* call follows such an entry and no table-hook fires deeper than 4 levels.
C13_NoDescentBelowPt ==
    start = "pml4" =>
        \A i \in Events :
            /\ (trace[i].ev = "table" => trace[i].depth <= 4)
            /\ (trace[i].ev = "entry" /\ trace[i].depth = 4 /\ i < Len(trace))
                    => trace[i + 1].ev # "resolve"

\* C17 (as claimed): a default walk terminates on every hierarchy, cyclic
\* ones included, because descent stops after four table levels: the
\* recursion never runs away.  (A chain of distinct tables is shorter than
\* MaxStack, so only a recursion round a cycle exhausts the stack.)
C17_WalkTerminates == status # "overflow"

\* the start of the table-hook invocation that the event trace[i] belongs to
StartOf(i) ==
    LET js == {j \in 1 .. i : trace[j].ev = "table"
                              /\ trace[j].depth = trace[i].depth}
    IN  CHOOSE j \in js : \A k \in js : k <= j

\* C14: whenever a table-hook invocation returns, it has applied the
\* entry-hook to every slot of its table exactly once, whatever the entries
\* are (absent, huge leaves or interior).
C14_FullScan ==
    (Len(trace) > 0 /\ trace[Len(trace)].ev = "ret") =>
        LET n == Len(trace)
            own == {j \in StartOf(n) .. n :
                        trace[j].ev = "entry" /\ trace[j].depth = trace[n].depth}
        IN  /\ \A k \in Slots :
                 Cardinality({j \in own : trace[j].idx = k}) = 1
            /\ \A j \in own : /\ trace[j].table = trace[n].table
                              /\ trace[j].idx \in Slots
            /\ Cardinality(own) = TableSize

C14_Witness ==
    /\ Len(trace) > 0
    /\ trace[Len(trace)].ev = "ret"
    /\ mem[trace[Len(trace)].table][0].huge
    /\ \E i \in Events : /\ trace[i].ev = "ret"
                         /\ frame(mem[trace[i].table][0]).tag = "Ok"

\* trace[i] is an entry-hook application that descends into a child table
Descends(i) ==
    /\ trace[i].ev = "entry"
    /\ trace[i].hook # "pt"
    /\ frame(mem[trace[i].table][trace[i].idx]).tag = "Ok"

\* C15: descent is depth-first and properly nested.  Whenever the entry-hook
\* is applied to a slot, or a table-hook returns, the event before it in the
\* same invocation is directly before it, unless that event descended: then
\* exactly the complete walk of the one child table lies in between (resolver
\* call, child table-hook, ..., return of the child table-hook).
C15_DepthFirst ==
    (Len(trace) > 0 /\ trace[Len(trace)].ev \in {"entry", "ret"}) =>
        LET n == Len(trace)
            d == trace[n].depth
            p == PrevAtDepth(n)
        IN  /\ \A j \in (p + 1) .. (n - 1) :
                    trace[j].ev = "resolve" \/ trace[j].depth > d
            /\ \A dd \in (d + 1) .. MaxStack :
                    Cardinality({j \in (p + 1) .. (n - 1) :
                        trace[j].ev = "table" /\ trace[j].depth = dd})
                  = Cardinality({j \in (p + 1) .. (n - 1) :
                        trace[j].ev = "ret" /\ trace[j].depth = dd})
            /\ IF Descends(p)
               THEN /\ p + 3 <= n - 1
                    /\ trace[p + 1].ev = "resolve"
                    /\ trace[p + 2].ev = "table"
                    /\ trace[p + 2].depth = d + 1
                    /\ trace[p + 2].table = trace[p + 1].table
                    /\ trace[n - 1].ev = "ret"
                    /\ trace[n - 1].depth = d + 1
                    /\ trace[n - 1].table = trace[p + 1].table
                    /\ Cardinality({j \in (p + 1) .. (n - 1) :
                          trace[j].ev = "table" /\ trace[j].depth = d + 1}) = 1
               ELSE p = n - 1

C15_Witness ==
    /\ Len(trace) > 0
    /\ trace[Len(trace)].ev = "entry"
    /\ trace[Len(trace)].hook = "pml4"
    /\ trace[Len(trace)].idx = TableSize - 1
    /\ Descends(PrevAtDepth(Len(trace)))
    /\ \E i \in Events : trace[i].ev = "ret" /\ trace[i].depth = 3

\* C16: with all hooks at their defaults no step of a walk, by either engine,
\* writes to a table: every entry of every table stays as it was.
C16_TablesUnchanged == [][mem' = mem]_vars

C16_Witness ==
    /\ engine = "mut"
    /\ start = "pml4"
    /\ status = "returned"
    /\ \E i \in Events : EntryAt(i, "pd", "HugeFrame")
    /\ mem \in Hierarchies

====
